---- MODULE Spec2Model ----
(***************************************************************************)
(* The three sequence containers of the library: myvector (myvector.h),    *)
(* slist (slist.h) and dlist (dlist.h), as a state machine over a small    *)
(* set of container objects and the heap storage they own.                 *)
(*                                                                         *)
(* Storage is explicit: a myvector's unique_ptr<T[]> names a buffer of the *)
(* buffer heap, a list's head and its nodes' links name nodes of a node    *)
(* heap.  Indices are 0-based as in the source; cell i of a buffer is      *)
(* element i + 1 of its TLA+ sequence.                                     *)
(*                                                                         *)
(* An address means nothing beyond the identity of what it names, so each  *)
(* call leaves the heap renumbered in the order a traversal from the       *)
(* objects finds the storage: two states that differ only in the           *)
(* addresses the allocator happened to return, or in what a myvector's     *)
(* array holds beyond the vector's length, are one state.                  *)
(***************************************************************************)
EXTENDS Integers, Sequences, FiniteSets, TLC

MaxLen == 3                 \* no container grows beyond this length
MaxVal == 2                 \* element values are 1..MaxVal
InstSeq == <<"a", "b">>     \* the container objects of the client program
Inst   == {InstSeq[k] : k \in 1..Len(InstSeq)}
Values == 1..MaxVal

NULL    == 0                \* nullptr / an empty weak_ptr
Uninit  == 0                \* a cell of new T[n] nothing was stored in yet
NoObj   == [kind |-> "none"]  \* an object that is not constructed (or destroyed)

BufIds  == 1..(Cardinality(Inst) + 1)
NodeIds == 1..(Cardinality(Inst) * MaxLen)

VARIABLES
    obj,      \* obj[i]: the fields of container object i
    bufs,     \* the live T[] buffers: id -> [n: allocated cells, mem: cells]
    snodes,   \* the live Node<T> objects: id -> [value, next]
    dnodes,   \* the live DoubleNode<T> objects: id -> [value, next, prev]
    last,     \* the last call made and how it returned
    ref       \* ref[i]: the reference sequence of object i, and the balance of the
              \* calls that built it (history)

vars == <<obj, bufs, snodes, dnodes, last, ref>>

Min(S) == CHOOSE x \in S : \A y \in S : x <= y

Range(s) == {s[k] : k \in DOMAIN s}
RECURSIVE Ascending(_)
Ascending(S) == IF S = {} THEN <<>> ELSE <<Min(S)>> \o Ascending(S \ {Min(S)})
IndexOf(s, x) == CHOOSE k \in DOMAIN s : s[k] = x

Call(op, result) == [op |-> op, result |-> result]

\* The reference (mathematical) sequence operations.
InsertAt(s, x, p) == SubSeq(s, 1, p) \o <<x>> \o SubSeq(s, p + 1, Len(s))
RemoveAt(s, p)    == SubSeq(s, 1, p) \o SubSeq(s, p + 2, Len(s))
ReplaceAt(s, x, p) == [s EXCEPT ![p + 1] = x]

IsVec(i)   == obj[i].kind = "myvector"
IsSList(i) == obj[i].kind = "slist"
IsDList(i) == obj[i].kind = "dlist"
Live(i)    == obj[i] # NoObj
\* The client works with one container kind at a time.
OnlyKind(k) == \A j \in Inst : obj[j] = NoObj \/ obj[j].kind = k

(***************************************************************************)
(* myvector                                                                *)
(***************************************************************************)

\* new T[n]: the lowest free buffer id, n uninitialised cells.
NewBuf(m)      == Min(BufIds \ DOMAIN m)
AllocBuf(m, n) == [p \in DOMAIN m \cup {NewBuf(m)} |->
                     IF p = NewBuf(m) THEN [n |-> n, mem |-> [k \in 1..n |-> Uninit]]
                     ELSE m[p]]
\* unique_ptr<T[]> gives up the buffer it owns: delete[].
FreeBuf(m, p)  == [q \in DOMAIN m \ {p} |-> m[q]]

\* The values a read of p[i] may yield.  A cell of the array yields what was
\* stored there.  A cell nothing was stored in, and whatever lies past the
\* end of the array or behind a pointer to no live array, is indeterminate:
\* the read yields any value.
LoadVals(m, p, i) ==
    IF p \in DOMAIN m /\ i < m[p].n /\ m[p].mem[i + 1] # Uninit
    THEN {m[p].mem[i + 1]}
    ELSE Values

\* The heap after p[i] = w.  A store past the end of the array leaves the
\* array as it is: what lies past the end is not the array's, it is not
\* tracked, and a later read of it yields any value (LoadVals).
StoreOuts(m, p, i, w) ==
    IF p \in DOMAIN m /\ i < m[p].n
    THEN {[m EXCEPT ![p].mem[i + 1] = w]}
    ELSE {m}

\* for (; i < n; ++i) dst[i] = src[i];   from each heap of M
RECURSIVE CopyCells(_, _, _, _, _)
CopyCells(M, src, dst, i, n) ==
    IF i >= n THEN M
    ELSE CopyCells(UNION {UNION {StoreOuts(m, dst, i, w) : w \in LoadVals(m, src, i)}
                          : m \in M},
                   src, dst, i + 1, n)

\* for (; i > position; --i) data[i] = data[i - 1];
RECURSIVE ShiftRight(_, _, _, _)
ShiftRight(M, p, i, position) ==
    IF i <= position THEN M
    ELSE ShiftRight(UNION {UNION {StoreOuts(m, p, i, w) : w \in LoadVals(m, p, i - 1)}
                           : m \in M},
                    p, i - 1, position)

\* for (; i < length - 1; ++i) data[i] = data[i + 1];
RECURSIVE ShiftLeft(_, _, _, _)
ShiftLeft(M, p, i, length) ==
    IF i >= length - 1 THEN M
    ELSE ShiftLeft(UNION {UNION {StoreOuts(m, p, i, w) : w \in LoadVals(m, p, i + 1)}
                          : m \in M},
                   p, i + 1, length)

VecState(v, m) == [v |-> v, bufs |-> m]

myvector_default(m) ==
    VecState([kind |-> "myvector", data |-> NewBuf(m), capacity |-> 1, length |-> 0],
             AllocBuf(m, 1))

\* resize(): capacity *= 2, a new array, the old cells copied, the old array freed.
myvector_resize(v, m) ==
    LET cap == v.capacity * 2
        nd  == NewBuf(m)
        M   == CopyCells({AllocBuf(m, cap)}, v.data, nd, 0, v.length)
    IN  {VecState([v EXCEPT !.capacity = cap, !.data = nd],
                  IF v.data = NULL THEN m2 ELSE FreeBuf(m2, v.data)) : m2 \in M}

\* The bounds checks that throw std::out_of_range before anything is changed.
myvector_insert_range_error(v, position) == position > v.length \/ position < 0
\* Mutant: the erase check lets position == length through.
myvector_erase_range_error_lax(v, position) == position > v.length \/ position < 0
myvector_erase_range_error(v, position)  == position >= v.length \/ position < 0
myvector_at_range_error(v, index)        == index < 0 \/ index >= v.length

myvector_push_back(v, m, value) ==
    LET S == IF v.length = v.capacity THEN myvector_resize(v, m) ELSE {VecState(v, m)}
    IN  UNION {{VecState([s.v EXCEPT !.length = @ + 1], m2)
                : m2 \in StoreOuts(s.bufs, s.v.data, s.v.length, value)} : s \in S}

myvector_insert(v, m, value, position) ==
    LET S == IF v.length = v.capacity THEN myvector_resize(v, m) ELSE {VecState(v, m)}
    IN  UNION {{VecState([s.v EXCEPT !.length = @ + 1], m3)
                : m3 \in UNION {StoreOuts(m2, s.v.data, position, value)
                                : m2 \in ShiftRight({s.bufs}, s.v.data, s.v.length, position)}}
               : s \in S}

\* push_back(T &value) called as v.push_back(v[k]): value refers to the cell
\* k of the array v.data pointed to when the call was made.  resize() deletes
\* that array, and data[length] = value then reads through the reference.
myvector_push_back_ref(v, m, k) ==
    LET S == IF v.length = v.capacity THEN myvector_resize(v, m) ELSE {VecState(v, m)}
    IN  UNION {UNION {{VecState([s.v EXCEPT !.length = @ + 1], m2)
                       : m2 \in StoreOuts(s.bufs, s.v.data, s.v.length, w)}
                      : w \in LoadVals(s.bufs, v.data, k)}
               : s \in S}

\* insert(T &value, int position) called as v.insert(v[k], position): the
\* reference is read after resize() and after the shift loop.
myvector_insert_ref(v, m, k, position) ==
    LET S == IF v.length = v.capacity THEN myvector_resize(v, m) ELSE {VecState(v, m)}
    IN  UNION {UNION {UNION {{VecState([s.v EXCEPT !.length = @ + 1], m3)
                              : m3 \in StoreOuts(m2, s.v.data, position, w)}
                             : w \in LoadVals(m2, v.data, k)}
                      : m2 \in ShiftRight({s.bufs}, s.v.data, s.v.length, position)}
               : s \in S}

\* Mutant: the elements after position are not shifted down.
myvector_erase_no_shift(v, m, position) ==
    {VecState([v EXCEPT !.length = @ - 1], m)}

myvector_erase(v, m, position) ==
    {VecState([v EXCEPT !.length = @ - 1], m2)
     : m2 \in ShiftLeft({m}, v.data, position, v.length)}

\* v[index] = value, through the reference operator[] returns.
myvector_assign_at(v, m, index, value) ==
    {VecState(v, m2) : m2 \in StoreOuts(m, v.data, index, value)}

\* Mutant: vect.capacity = 0 is forgotten.
myvector_moved_from_keeps_capacity(vect) ==
    [vect EXCEPT !.data = NULL, !.length = 0]

\* The moved-from state both move operations leave in vect.
myvector_moved_from(vect) ==
    [vect EXCEPT !.data = NULL, !.capacity = 0, !.length = 0]

\* unique_ptr<T[]>::operator=(unique_ptr&&) and its destructor: the array
\* owned so far is deleted.
DropBuf(m, p) == IF p = NULL THEN m ELSE FreeBuf(m, p)

Moved(self, other, store) == [self |-> self, other |-> other, store |-> store]

myvector_move_ctor(vect, m) ==
    Moved([kind |-> "myvector", data |-> vect.data, capacity |-> vect.capacity,
           length |-> vect.length],
          myvector_moved_from(vect), m)

myvector_move_assign(self, vect, m) ==
    Moved([self EXCEPT !.data = vect.data, !.capacity = vect.capacity,
                       !.length = vect.length],
          myvector_moved_from(vect), DropBuf(m, self.data))

\* Mutant: a shallow copy, the two vectors share vect's array.
myvector_copy_assign_shallow(self, vect, m) ==
    {VecState([self EXCEPT !.data = vect.data, !.capacity = vect.capacity,
                           !.length = vect.length],
              DropBuf(m, self.data))}

\* Copy assignment: new T[vect.capacity], vect's cells copied, the old array
\* deleted when data takes the new one.
myvector_copy_assign(self, vect, m) ==
    LET newData == NewBuf(m)
    IN  {VecState([self EXCEPT !.data = newData, !.capacity = vect.capacity,
                               !.length = vect.length],
                  DropBuf(m2, self.data))
         : m2 \in CopyCells({AllocBuf(m, vect.capacity)}, vect.data, newData, 0, vect.length)}

\* The elements a traversal of v observes, index 0 first.
\* Uninit stands for an element whose value is indeterminate.
VecCell(m, p, i) == IF p \in DOMAIN m /\ i < m[p].n THEN m[p].mem[i + 1] ELSE Uninit
VecElems(v, m)   == [k \in 1..v.length |-> VecCell(m, v.data, k - 1)]

(***************************************************************************)
(* slist: unique_ptr<Node<T>> head, each node's unique_ptr owns the next.  *)
(***************************************************************************)

\* make_unique / make_shared: the lowest free node id.
NewNode(h) == Min(NodeIds \ DOMAIN h)

\* Node(T& val): value = val; next = nullptr.
Node(val) == [value |-> val, next |-> NULL]
AllocNode(h, n) == [p \in DOMAIN h \cup {NewNode(h)} |-> IF p = NewNode(h) THEN n ELSE h[p]]

\* A unique_ptr<Node<T>> deletes the node it owns; the node's destructor
\* destroys its next, which deletes the node that one owns, and so on.
RECURSIVE SDelete(_, _)
SDelete(h, p) ==
    IF p = NULL \/ p \notin DOMAIN h THEN h
    ELSE SDelete([q \in DOMAIN h \ {p} |-> h[q]], h[p].next)

\* while (cur->next != nullptr) cur = cur->next.get();
RECURSIVE STail(_, _)
STail(h, cur) == IF h[cur].next = NULL THEN cur ELSE STail(h, h[cur].next)

\* while (cnt < n) { cur = cur->next.get(); cnt++; }
RECURSIVE SWalk(_, _, _)
SWalk(h, cur, n) == IF n <= 0 THEN cur ELSE SWalk(h, h[cur].next, n - 1)

ListState(l, h) == [l |-> l, nodes |-> h]

slist_default == [kind |-> "slist", head |-> NULL, length |-> 0]

\* The bounds checks that throw std::out_of_range before anything is changed.
slist_insert_range_error(l, position) == position > l.length \/ position < 0
slist_erase_range_error(l, position)  == position >= l.length \/ position < 0
slist_at_range_error(l, index)        == index < 0 \/ index >= l.length

slist_push_back(l, h, value) ==
    LET newNode == NewNode(h)
        h1      == AllocNode(h, Node(value))
    IN  IF l.head = NULL
        THEN ListState([l EXCEPT !.head = newNode, !.length = @ + 1], h1)
        ELSE ListState([l EXCEPT !.length = @ + 1],
                       [h1 EXCEPT ![STail(h1, l.head)].next = newNode])

slist_insert(l, h, value, position) ==
    LET newNode == NewNode(h)
        h1      == AllocNode(h, Node(value))
        cur     == SWalk(h1, l.head, position - 1)
    IN  IF position = 0
        THEN ListState([l EXCEPT !.head = newNode, !.length = @ + 1],
                       [h1 EXCEPT ![newNode].next = l.head])
        ELSE ListState([l EXCEPT !.length = @ + 1],
                       [h1 EXCEPT ![newNode].next = h1[cur].next, ![cur].next = newNode])

\* The links after the erased node handed its next over: victim->next is
\* released (left null) before the victim is deleted.
\* Mutant: the erased node is release()d and never deleted.
slist_unlink_leaks(h, victim) == [h EXCEPT ![victim].next = NULL]

slist_unlink(h, victim) == SDelete([h EXCEPT ![victim].next = NULL], victim)

slist_erase(l, h, position) ==
    LET cur    == SWalk(h, l.head, position - 1)
        victim == IF position = 0 THEN l.head ELSE h[cur].next
        rest   == h[victim].next
    IN  IF position = 0
        THEN ListState([l EXCEPT !.head = rest, !.length = @ - 1], slist_unlink(h, victim))
        ELSE ListState([l EXCEPT !.length = @ - 1],
                       slist_unlink([h EXCEPT ![cur].next = rest], victim))

\* l[index] = value, through the reference operator[] returns.
slist_assign_at(l, h, index, value) ==
    ListState(l, [h EXCEPT ![SWalk(h, l.head, index)].value = value])

\* The empty state both move operations leave in list.
slist_moved_from(list) == [list EXCEPT !.head = NULL, !.length = 0]

\* Copy assignment after head.reset(): push_back(cur->value) along list's chain.
RECURSIVE slist_copy_from(_, _)
slist_copy_from(s, cur) ==
    IF cur = NULL THEN s
    ELSE slist_copy_from(slist_push_back(s.l, s.nodes, s.nodes[cur].value), s.nodes[cur].next)

slist_copy_assign(self, list, h) ==
    slist_copy_from(ListState([self EXCEPT !.head = NULL, !.length = 0], SDelete(h, self.head)),
                    list.head)

slist_move_ctor(list, h) ==
    Moved([kind |-> "slist", head |-> list.head, length |-> list.length],
          slist_moved_from(list), h)

\* Mutant: the source keeps its length (list.length = 0 forgotten).
slist_move_assign_keeps_length(self, list, h) ==
    Moved([self EXCEPT !.head = list.head, !.length = list.length],
          [list EXCEPT !.head = NULL], SDelete(h, self.head))

slist_move_assign(self, list, h) ==
    Moved([self EXCEPT !.head = list.head, !.length = list.length],
          slist_moved_from(list), SDelete(h, self.head))

\* The elements a traversal from begin() to end() observes.
RECURSIVE SElems(_, _)
SElems(h, p) == IF p = NULL THEN <<>> ELSE <<h[p].value>> \o SElems(h, h[p].next)

(***************************************************************************)
(* dlist: shared_ptr<DoubleNode<T>> head and next, weak_ptr prev.          *)
(***************************************************************************)

EXPIRED == -1   \* a weak_ptr whose node was destroyed

\* DoubleNode(T& val): value = val; next.reset(); prev.reset().
DoubleNode(val) == [value |-> val, next |-> NULL, prev |-> NULL]

\* Mutant: prev is a shared_ptr too and holds a count.
UseCountStrongPrev(h, heads, n) ==
    Cardinality({i \in DOMAIN heads : heads[i] = n})
    + Cardinality({q \in DOMAIN h : h[q].next = n})
    + Cardinality({q \in DOMAIN h : h[q].prev = n})

\* The shared_ptr use count of node n: the heads naming it (heads is the
\* function from objects to their head) and the next links of live nodes
\* naming it.  prev is a weak_ptr and holds no count.
UseCount(h, heads, n) ==
    Cardinality({i \in DOMAIN heads : heads[i] = n})
    + Cardinality({q \in DOMAIN h : h[q].next = n})

\* What is left once every shared_ptr local to the call is gone: a node whose
\* use count is zero is destroyed, which releases its next; weak_ptrs to a
\* destroyed node are expired.
RECURSIVE Release(_, _)
Release(h, heads) ==
    LET dead == {n \in DOMAIN h : UseCount(h, heads, n) = 0}
    IN  IF dead = {} THEN h
        ELSE Release([q \in DOMAIN h \ dead |->
                         IF h[q].prev \in dead THEN [h[q] EXCEPT !.prev = EXPIRED] ELSE h[q]],
                     heads)

\* while (cur->next) cur = cur->next;
RECURSIVE DTail(_, _)
DTail(h, cur) == IF h[cur].next = NULL THEN cur ELSE DTail(h, h[cur].next)

\* while (cnt < n) { cur = cur->next; cnt++; }
RECURSIVE DWalk(_, _, _)
DWalk(h, cur, n) == IF n <= 0 THEN cur ELSE DWalk(h, h[cur].next, n - 1)

dlist_default == [kind |-> "dlist", head |-> NULL, length |-> 0]

\* The bounds checks that throw std::out_of_range before anything is changed.
dlist_insert_range_error(l, position) == position > l.length \/ position < 0
dlist_erase_range_error(l, position)  == position >= l.length \/ position < 0
dlist_at_range_error(l, index)        == index < 0 \/ index >= l.length

dlist_push_back(l, h, value) ==
    LET newNode == NewNode(h)
        h1      == AllocNode(h, DoubleNode(value))
        cur     == DTail(h1, l.head)
    IN  IF l.head = NULL
        THEN ListState([l EXCEPT !.head = newNode, !.length = @ + 1], h1)
        ELSE ListState([l EXCEPT !.length = @ + 1],
                       [h1 EXCEPT ![newNode].prev = cur, ![cur].next = newNode])

\* Mutant: newNode->prev = cur is forgotten.
dlist_insert_no_prev(l, h, value, position) ==
    LET newNode == NewNode(h)
        h1      == AllocNode(h, DoubleNode(value))
        cur     == DWalk(h1, l.head, position - 1)
        nxt     == h1[cur].next
        h2      == [h1 EXCEPT ![newNode].next = nxt]
        h3      == IF nxt # NULL THEN [h2 EXCEPT ![nxt].prev = newNode] ELSE h2
    IN  IF position = 0
        THEN ListState([l EXCEPT !.head = newNode, !.length = @ + 1],
                       IF l.head # NULL
                       THEN [h1 EXCEPT ![l.head].prev = newNode, ![newNode].next = l.head]
                       ELSE h1)
        ELSE ListState([l EXCEPT !.length = @ + 1], [h3 EXCEPT ![cur].next = newNode])

dlist_insert(l, h, value, position) ==
    LET newNode == NewNode(h)
        h1      == AllocNode(h, DoubleNode(value))
        cur     == DWalk(h1, l.head, position - 1)
        nxt     == h1[cur].next
        h2      == [h1 EXCEPT ![newNode].next = nxt]
        h3      == IF nxt # NULL THEN [h2 EXCEPT ![nxt].prev = newNode] ELSE h2
    IN  IF position = 0
        THEN ListState([l EXCEPT !.head = newNode, !.length = @ + 1],
                       IF l.head # NULL
                       THEN [h1 EXCEPT ![l.head].prev = newNode, ![newNode].next = l.head]
                       ELSE h1)
        ELSE ListState([l EXCEPT !.length = @ + 1],
                       [h3 EXCEPT ![newNode].prev = cur, ![cur].next = newNode])

\* Mutant: the node after the erased one keeps its prev.
dlist_erase_stale_prev(l, h, position) ==
    LET newHead == h[l.head].next
        cur     == DWalk(h, l.head, position - 1)
        nxt     == h[h[cur].next].next
    IN  IF position = 0
        THEN IF newHead = NULL
             THEN ListState([l EXCEPT !.head = NULL, !.length = @ - 1], h)
             ELSE ListState([l EXCEPT !.head = newHead, !.length = @ - 1],
                            [h EXCEPT ![newHead].prev = NULL])
        ELSE ListState([l EXCEPT !.length = @ - 1], [h EXCEPT ![cur].next = nxt])

\* Mutant: newHead->prev.reset() is forgotten.
dlist_erase_head_keeps_prev(l, h, position) ==
    LET newHead == h[l.head].next
        cur     == DWalk(h, l.head, position - 1)
        nxt     == h[h[cur].next].next
        h1      == [h EXCEPT ![cur].next = nxt]
    IN  IF position = 0
        THEN ListState([l EXCEPT !.head = newHead, !.length = @ - 1], h)
        ELSE ListState([l EXCEPT !.length = @ - 1],
                       IF nxt # NULL THEN [h1 EXCEPT ![nxt].prev = cur] ELSE h1)

dlist_erase(l, h, position) ==
    LET newHead == h[l.head].next
        cur     == DWalk(h, l.head, position - 1)
        nxt     == h[h[cur].next].next
        h1      == [h EXCEPT ![cur].next = nxt]
    IN  IF position = 0
        THEN IF newHead = NULL
             THEN ListState([l EXCEPT !.head = NULL, !.length = @ - 1], h)
             ELSE ListState([l EXCEPT !.head = newHead, !.length = @ - 1],
                            [h EXCEPT ![newHead].prev = NULL])
        ELSE ListState([l EXCEPT !.length = @ - 1],
                       IF nxt # NULL THEN [h1 EXCEPT ![nxt].prev = cur] ELSE h1)

\* l[index] = value, through the reference operator[] returns.
dlist_assign_at(l, h, index, value) ==
    ListState(l, [h EXCEPT ![DWalk(h, l.head, index)].value = value])

\* The empty state both move operations leave in list.
\* Mutant: list.head = nullptr is forgotten, the source keeps the chain.
dlist_moved_from_keeps_head(list) == [list EXCEPT !.length = 0]

dlist_moved_from(list) == [list EXCEPT !.head = NULL, !.length = 0]

\* Copy assignment: head.reset(), then push_back(cur->value) along list's
\* chain.  heads are the heads of the other objects, which keep their nodes.
RECURSIVE dlist_copy_from(_, _)
dlist_copy_from(s, cur) ==
    IF cur = NULL THEN s
    ELSE dlist_copy_from(dlist_push_back(s.l, s.nodes, s.nodes[cur].value), s.nodes[cur].next)

\* Mutant: length = 0 is forgotten before the elements are appended.
dlist_copy_assign_keeps_length(self, list, h, heads) ==
    dlist_copy_from(ListState([self EXCEPT !.head = NULL], Release(h, heads)), list.head)

dlist_copy_assign(self, list, h, heads) ==
    dlist_copy_from(ListState([self EXCEPT !.head = NULL, !.length = 0], Release(h, heads)),
                    list.head)

dlist_move_ctor(list, h) ==
    Moved([kind |-> "dlist", head |-> list.head, length |-> list.length],
          dlist_moved_from(list), h)

dlist_move_assign(self, list, h) ==
    Moved([self EXCEPT !.head = list.head, !.length = list.length],
          dlist_moved_from(list), h)

\* The elements a traversal from begin() to end() observes.
RECURSIVE DElems(_, _)
DElems(h, p) == IF p = NULL THEN <<>> ELSE <<h[p].value>> \o DElems(h, h[p].next)

(***************************************************************************)
(* Addresses up to renaming.                                               *)
(***************************************************************************)

\* The storage an object record refers to.
Root(x) == IF x.kind = "myvector" THEN x.data
           ELSE IF x.kind \in {"slist", "dlist"} THEN x.head ELSE NULL

\* The nodes met from p along next, those seen before left out.
RECURSIVE Chain(_, _, _)
Chain(h, p, seen) ==
    IF p \notin DOMAIN h \/ p \in seen THEN <<>>
    ELSE <<p>> \o Chain(h, h[p].next, seen \cup {p})

RECURSIVE NodesFrom(_, _, _, _)
NodesFrom(o, h, k, acc) ==
    IF k > Len(InstSeq) THEN acc
    ELSE NodesFrom(o, h, k + 1, acc \o Chain(h, Root(o[InstSeq[k]]), Range(acc)))

RECURSIVE BufsFrom(_, _, _, _)
BufsFrom(o, m, k, acc) ==
    IF k > Len(InstSeq) THEN acc
    ELSE BufsFrom(o, m, k + 1,
                  IF Root(o[InstSeq[k]]) \in DOMAIN m \ Range(acc)
                  THEN Append(acc, Root(o[InstSeq[k]])) ELSE acc)

\* Every live address, those the objects reach first.
Order(found, h) == found \o Ascending(DOMAIN h \ Range(found))
Renamed(ord, r) == IF r \in Range(ord) THEN IndexOf(ord, r) ELSE r

RenamedObj(ord, x) ==
    IF x.kind = "myvector" THEN [x EXCEPT !.data = Renamed(ord, @)]
    ELSE IF x.kind \in {"slist", "dlist"} THEN [x EXCEPT !.head = Renamed(ord, @)]
    ELSE x

\* The cells of array p that lie at or beyond the length of the vector owning
\* it hold nothing the vector's value depends on: their content is forgotten.
Trimmed(o, m, p) ==
    LET owners == {i \in Inst : o[i].kind = "myvector" /\ o[i].data = p}
        len    == IF owners = {} THEN m[p].n ELSE o[CHOOSE i \in owners : TRUE].length
    IN  [m[p] EXCEPT !.mem = [k \in 1..m[p].n |-> IF k <= len THEN m[p].mem[k] ELSE Uninit]]

SettledBufs(o, m) ==
    LET ord == Order(BufsFrom(o, m, 1, <<>>), m)
    IN  [obj |-> [i \in Inst |-> RenamedObj(ord, o[i])],
         store |-> [k \in 1..Len(ord) |-> Trimmed(o, m, ord[k])]]

SettledSNodes(o, h) ==
    LET ord == Order(NodesFrom(o, h, 1, <<>>), h)
    IN  [obj |-> [i \in Inst |-> RenamedObj(ord, o[i])],
         store |-> [k \in 1..Len(ord) |-> [h[ord[k]] EXCEPT !.next = Renamed(ord, @)]]]

SettledDNodes(o, h) ==
    LET ord == Order(NodesFrom(o, h, 1, <<>>), h)
    IN  [obj |-> [i \in Inst |-> RenamedObj(ord, o[i])],
         store |-> [k \in 1..Len(ord) |->
                      [h[ord[k]] EXCEPT !.next = Renamed(ord, @), !.prev = Renamed(ord, @)]]]

(***************************************************************************)
(* The client's calls.                                                     *)
(***************************************************************************)

Positions == (0 - 1)..(MaxLen + 1)

\* The reference sequence after each call.
Fresh == [seq |-> <<>>, net |-> 0]
RefPushed(r, x)      == [seq |-> Append(r.seq, x), net |-> r.net + 1]
RefInserted(r, x, p) == [seq |-> InsertAt(r.seq, x, p), net |-> r.net + 1]
RefErased(r, p)      == [seq |-> RemoveAt(r.seq, p), net |-> r.net - 1]
RefAssigned(r, x, p) == [r EXCEPT !.seq = ReplaceAt(@, x, p)]

\* How a call ends: by throw std::out_of_range with nothing changed, or by
\* returning with the objects and the storage of its kind as given.
Thrown(st)      == [result |-> "out_of_range", obj |-> obj, store |-> st]
Returned(o, st) == [result |-> "ok", obj |-> o, store |-> st]

\* The heads of the dlist objects of o.
Heads(o) == [i \in {j \in Inst : o[j].kind = "dlist"} |-> o[i].head]

VecReturned(o, m) == LET c == SettledBufs(o, m) IN Returned(c.obj, c.store)
SListReturned(o, h) == LET c == SettledSNodes(o, h) IN Returned(c.obj, c.store)
\* A dlist call returns: its shared_ptr locals are gone.
DListReturned(o, h) == LET c == SettledDNodes(o, Release(h, Heads(o))) IN Returned(c.obj, c.store)

VecOne(i, R)       == {VecReturned([obj EXCEPT ![i] = r.v], r.bufs) : r \in R}
VecTwo(i, j, r)    == {VecReturned([obj EXCEPT ![i] = r.self, ![j] = r.other], r.store)}
SListOne(i, r)     == {SListReturned([obj EXCEPT ![i] = r.l], r.nodes)}
SListTwo(i, j, r)  == {SListReturned([obj EXCEPT ![i] = r.self, ![j] = r.other], r.store)}
DListOne(i, r)     == {DListReturned([obj EXCEPT ![i] = r.l], r.nodes)}
DListTwo(i, j, r)  == {DListReturned([obj EXCEPT ![i] = r.self, ![j] = r.other], r.store)}

VecDone(op, out, r) ==
    /\ obj' = out.obj /\ bufs' = out.store /\ last' = Call(op, out.result)
    /\ ref' = (IF out.result = "ok" THEN r ELSE ref)
    /\ UNCHANGED <<snodes, dnodes>>

SListDone(op, out, r) ==
    /\ obj' = out.obj /\ snodes' = out.store /\ last' = Call(op, out.result)
    /\ ref' = (IF out.result = "ok" THEN r ELSE ref)
    /\ UNCHANGED <<bufs, dnodes>>

DListDone(op, out, r) ==
    /\ obj' = out.obj /\ dnodes' = out.store /\ last' = Call(op, out.result)
    /\ ref' = (IF out.result = "ok" THEN r ELSE ref)
    /\ UNCHANGED <<bufs, snodes>>

(***************************************************************************)
(* myvector: each call as a whole, and the client making it.           *)
(***************************************************************************)

VecConstructOuts(i)        == VecOne(i, {myvector_default(bufs)})
VecMoveConstructOuts(i, j) == VecTwo(i, j, myvector_move_ctor(obj[j], bufs))
VecPushBackOuts(i, x)      == VecOne(i, myvector_push_back(obj[i], bufs, x))
VecInsertOuts(i, x, p) ==
    IF myvector_insert_range_error(obj[i], p) THEN {Thrown(bufs)}
    ELSE VecOne(i, myvector_insert(obj[i], bufs, x, p))
\* v.push_back(v[k]) and v.insert(v[k], p): operator[](k) throws first if k
\* is out of range.
VecPushBackRefOuts(i, k) ==
    IF myvector_at_range_error(obj[i], k) THEN {Thrown(bufs)}
    ELSE VecOne(i, myvector_push_back_ref(obj[i], bufs, k))
VecInsertRefOuts(i, k, p) ==
    IF myvector_at_range_error(obj[i], k) \/ myvector_insert_range_error(obj[i], p)
    THEN {Thrown(bufs)}
    ELSE VecOne(i, myvector_insert_ref(obj[i], bufs, k, p))
VecEraseOuts(i, p) ==
    IF myvector_erase_range_error(obj[i], p) THEN {Thrown(bufs)}
    ELSE VecOne(i, myvector_erase(obj[i], bufs, p))
VecAssignAtOuts(i, p, x) ==
    IF myvector_at_range_error(obj[i], p) THEN {Thrown(bufs)}
    ELSE VecOne(i, myvector_assign_at(obj[i], bufs, p, x))
\* this == &other: return *this.
VecMoveAssignOuts(i, j) ==
    IF i = j THEN {Returned(obj, bufs)}
    ELSE VecTwo(i, j, myvector_move_assign(obj[i], obj[j], bufs))
VecCopyAssignOuts(i, j) ==
    IF i = j THEN {Returned(obj, bufs)}
    ELSE VecOne(i, myvector_copy_assign(obj[i], obj[j], bufs))
\* ~myvector() = default: data deletes its array.
VecDestroyOuts(i) == {VecReturned([obj EXCEPT ![i] = NoObj], DropBuf(bufs, obj[i].data))}

VecConstruct(i) ==
    /\ ~Live(i) /\ OnlyKind("myvector")
    /\ \E out \in VecConstructOuts(i) : VecDone("construct", out, [ref EXCEPT ![i] = Fresh])

VecMoveConstruct(i, j) ==
    /\ ~Live(i) /\ IsVec(j)
    /\ \E out \in VecMoveConstructOuts(i, j) :
          VecDone("move_construct", out, [ref EXCEPT ![i] = ref[j], ![j] = Fresh])

VecPushBack(i, x) ==
    /\ IsVec(i) /\ obj[i].length < MaxLen
    /\ \E out \in VecPushBackOuts(i, x) :
          VecDone("push_back", out, [ref EXCEPT ![i] = RefPushed(@, x)])

VecInsert(i, x, p) ==
    /\ IsVec(i)
    /\ myvector_insert_range_error(obj[i], p) \/ obj[i].length < MaxLen
    /\ \E out \in VecInsertOuts(i, x, p) :
          VecDone("insert", out, [ref EXCEPT ![i] = RefInserted(@, x, p)])

\* The call ends as push_back(w) does for a value w read through the
\* reference; the reference sequence takes that value.
VecPushBackRef(i, k) ==
    /\ IsVec(i) /\ obj[i].length < MaxLen
    /\ \E out \in VecPushBackRefOuts(i, k) :
          IF out.result = "ok"
          THEN \E w \in Values :
                  /\ out \in VecPushBackOuts(i, w)
                  /\ VecDone("push_back", out, [ref EXCEPT ![i] = RefPushed(@, w)])
          ELSE VecDone("at", out, ref)

VecInsertRef(i, k, p) ==
    /\ IsVec(i) /\ obj[i].length < MaxLen
    /\ \E out \in VecInsertRefOuts(i, k, p) :
          IF out.result = "ok"
          THEN \E w \in Values :
                  /\ out \in VecInsertOuts(i, w, p)
                  /\ VecDone("insert", out, [ref EXCEPT ![i] = RefInserted(@, w, p)])
          ELSE VecDone(IF myvector_at_range_error(obj[i], k) THEN "at" ELSE "insert", out, ref)

VecErase(i, p) ==
    /\ IsVec(i)
    /\ \E out \in VecEraseOuts(i, p) :
          VecDone("erase", out, [ref EXCEPT ![i] = RefErased(@, p)])

VecAssignAt(i, p, x) ==
    /\ IsVec(i)
    /\ \E out \in VecAssignAtOuts(i, p, x) :
          VecDone("at", out, [ref EXCEPT ![i] = RefAssigned(@, x, p)])

VecMoveAssign(i, j) ==
    /\ IsVec(i) /\ IsVec(j)
    /\ \E out \in VecMoveAssignOuts(i, j) :
          VecDone("move_assign", out,
                  IF i = j THEN ref ELSE [ref EXCEPT ![i] = ref[j], ![j] = Fresh])

VecCopyAssign(i, j) ==
    /\ IsVec(i) /\ IsVec(j)
    /\ \E out \in VecCopyAssignOuts(i, j) :
          VecDone("copy_assign", out, [ref EXCEPT ![i] = ref[j]])

VecDestroy(i) ==
    /\ IsVec(i)
    /\ \E out \in VecDestroyOuts(i) : VecDone("destroy", out, [ref EXCEPT ![i] = Fresh])

(***************************************************************************)
(* slist: each call as a whole, and the client making it.              *)
(***************************************************************************)

SListConstructOuts(i)        == SListOne(i, ListState(slist_default, snodes))
SListMoveConstructOuts(i, j) == SListTwo(i, j, slist_move_ctor(obj[j], snodes))
SListPushBackOuts(i, x)      == SListOne(i, slist_push_back(obj[i], snodes, x))
SListInsertOuts(i, x, p) ==
    IF slist_insert_range_error(obj[i], p) THEN {Thrown(snodes)}
    ELSE SListOne(i, slist_insert(obj[i], snodes, x, p))
SListEraseOuts(i, p) ==
    IF slist_erase_range_error(obj[i], p) THEN {Thrown(snodes)}
    ELSE SListOne(i, slist_erase(obj[i], snodes, p))
SListAssignAtOuts(i, p, x) ==
    IF slist_at_range_error(obj[i], p) THEN {Thrown(snodes)}
    ELSE SListOne(i, slist_assign_at(obj[i], snodes, p, x))
\* Mutant: no this == &list check; list.head = nullptr and list.length = 0
\* then empty the list assigned to itself.
SListMoveAssignOuts_unchecked(i, j) ==
    SListTwo(i, j, slist_move_assign(obj[i], obj[j], snodes))

\* this == &other: return *this.
SListMoveAssignOuts(i, j) ==
    IF i = j THEN {Returned(obj, snodes)}
    ELSE SListTwo(i, j, slist_move_assign(obj[i], obj[j], snodes))
SListCopyAssignOuts(i, j) ==
    IF i = j THEN {Returned(obj, snodes)}
    ELSE SListOne(i, slist_copy_assign(obj[i], obj[j], snodes))
\* ~slist() = default: head deletes its node, and so the chain.
SListDestroyOuts(i) == {SListReturned([obj EXCEPT ![i] = NoObj], SDelete(snodes, obj[i].head))}

SListConstruct(i) ==
    /\ ~Live(i) /\ OnlyKind("slist")
    /\ \E out \in SListConstructOuts(i) : SListDone("construct", out, [ref EXCEPT ![i] = Fresh])

SListMoveConstruct(i, j) ==
    /\ ~Live(i) /\ IsSList(j)
    /\ \E out \in SListMoveConstructOuts(i, j) :
          SListDone("move_construct", out, [ref EXCEPT ![i] = ref[j], ![j] = Fresh])

SListPushBack(i, x) ==
    /\ IsSList(i) /\ obj[i].length < MaxLen
    /\ \E out \in SListPushBackOuts(i, x) :
          SListDone("push_back", out, [ref EXCEPT ![i] = RefPushed(@, x)])

SListInsert(i, x, p) ==
    /\ IsSList(i)
    /\ slist_insert_range_error(obj[i], p) \/ obj[i].length < MaxLen
    /\ \E out \in SListInsertOuts(i, x, p) :
          SListDone("insert", out, [ref EXCEPT ![i] = RefInserted(@, x, p)])

SListErase(i, p) ==
    /\ IsSList(i)
    /\ \E out \in SListEraseOuts(i, p) :
          SListDone("erase", out, [ref EXCEPT ![i] = RefErased(@, p)])

SListAssignAt(i, p, x) ==
    /\ IsSList(i)
    /\ \E out \in SListAssignAtOuts(i, p, x) :
          SListDone("at", out, [ref EXCEPT ![i] = RefAssigned(@, x, p)])

SListMoveAssign(i, j) ==
    /\ IsSList(i) /\ IsSList(j)
    /\ \E out \in SListMoveAssignOuts(i, j) :
          SListDone("move_assign", out,
                  IF i = j THEN ref ELSE [ref EXCEPT ![i] = ref[j], ![j] = Fresh])

SListCopyAssign(i, j) ==
    /\ IsSList(i) /\ IsSList(j)
    /\ \E out \in SListCopyAssignOuts(i, j) :
          SListDone("copy_assign", out, [ref EXCEPT ![i] = ref[j]])

SListDestroy(i) ==
    /\ IsSList(i)
    /\ \E out \in SListDestroyOuts(i) : SListDone("destroy", out, [ref EXCEPT ![i] = Fresh])

(***************************************************************************)
(* dlist: each call as a whole, and the client making it.              *)
(***************************************************************************)

DListConstructOuts(i)        == DListOne(i, ListState(dlist_default, dnodes))
DListMoveConstructOuts(i, j) == DListTwo(i, j, dlist_move_ctor(obj[j], dnodes))
DListPushBackOuts(i, x)      == DListOne(i, dlist_push_back(obj[i], dnodes, x))
DListInsertOuts(i, x, p) ==
    IF dlist_insert_range_error(obj[i], p) THEN {Thrown(dnodes)}
    ELSE DListOne(i, dlist_insert(obj[i], dnodes, x, p))
DListEraseOuts(i, p) ==
    IF dlist_erase_range_error(obj[i], p) THEN {Thrown(dnodes)}
    ELSE DListOne(i, dlist_erase(obj[i], dnodes, p))
DListAssignAtOuts(i, p, x) ==
    IF dlist_at_range_error(obj[i], p) THEN {Thrown(dnodes)}
    ELSE DListOne(i, dlist_assign_at(obj[i], dnodes, p, x))
\* this == &other: return *this.
DListMoveAssignOuts(i, j) ==
    IF i = j THEN {Returned(obj, dnodes)}
    ELSE DListTwo(i, j, dlist_move_assign(obj[i], obj[j], dnodes))
DListCopyAssignOuts(i, j) ==
    IF i = j THEN {Returned(obj, dnodes)}
    ELSE DListOne(i, dlist_copy_assign(obj[i], obj[j], dnodes, Heads([obj EXCEPT ![i].head = NULL])))
\* ~dlist() = default: head gives up its share of the first node.
DListDestroyOuts(i) == {DListReturned([obj EXCEPT ![i] = NoObj], dnodes)}

DListConstruct(i) ==
    /\ ~Live(i) /\ OnlyKind("dlist")
    /\ \E out \in DListConstructOuts(i) : DListDone("construct", out, [ref EXCEPT ![i] = Fresh])

DListMoveConstruct(i, j) ==
    /\ ~Live(i) /\ IsDList(j)
    /\ \E out \in DListMoveConstructOuts(i, j) :
          DListDone("move_construct", out, [ref EXCEPT ![i] = ref[j], ![j] = Fresh])

DListPushBack(i, x) ==
    /\ IsDList(i) /\ obj[i].length < MaxLen
    /\ \E out \in DListPushBackOuts(i, x) :
          DListDone("push_back", out, [ref EXCEPT ![i] = RefPushed(@, x)])

DListInsert(i, x, p) ==
    /\ IsDList(i)
    /\ dlist_insert_range_error(obj[i], p) \/ obj[i].length < MaxLen
    /\ \E out \in DListInsertOuts(i, x, p) :
          DListDone("insert", out, [ref EXCEPT ![i] = RefInserted(@, x, p)])

DListErase(i, p) ==
    /\ IsDList(i)
    /\ \E out \in DListEraseOuts(i, p) :
          DListDone("erase", out, [ref EXCEPT ![i] = RefErased(@, p)])

DListAssignAt(i, p, x) ==
    /\ IsDList(i)
    /\ \E out \in DListAssignAtOuts(i, p, x) :
          DListDone("at", out, [ref EXCEPT ![i] = RefAssigned(@, x, p)])

DListMoveAssign(i, j) ==
    /\ IsDList(i) /\ IsDList(j)
    /\ \E out \in DListMoveAssignOuts(i, j) :
          DListDone("move_assign", out,
                  IF i = j THEN ref ELSE [ref EXCEPT ![i] = ref[j], ![j] = Fresh])

DListCopyAssign(i, j) ==
    /\ IsDList(i) /\ IsDList(j)
    /\ \E out \in DListCopyAssignOuts(i, j) :
          DListDone("copy_assign", out, [ref EXCEPT ![i] = ref[j]])

DListDestroy(i) ==
    /\ IsDList(i)
    /\ \E out \in DListDestroyOuts(i) : DListDone("destroy", out, [ref EXCEPT ![i] = Fresh])

Init ==
    /\ obj = [i \in Inst |-> NoObj]
    /\ bufs = <<>> /\ snodes = <<>> /\ dnodes = <<>>
    /\ last = Call("start", "ok")
    /\ ref = [i \in Inst |-> Fresh]

Next ==
    \/ \E i \in Inst : VecConstruct(i) \/ SListConstruct(i) \/ DListConstruct(i)
    \/ \E i \in Inst : VecDestroy(i) \/ SListDestroy(i) \/ DListDestroy(i)
    \/ \E i, j \in Inst : VecMoveConstruct(i, j) \/ SListMoveConstruct(i, j) \/ DListMoveConstruct(i, j)
    \/ \E i, j \in Inst : VecMoveAssign(i, j) \/ SListMoveAssign(i, j) \/ DListMoveAssign(i, j)
    \/ \E i, j \in Inst : VecCopyAssign(i, j) \/ SListCopyAssign(i, j) \/ DListCopyAssign(i, j)
    \/ \E i \in Inst, x \in Values : VecPushBack(i, x) \/ SListPushBack(i, x) \/ DListPushBack(i, x)
    \/ \E i \in Inst, x \in Values, p \in Positions :
          VecInsert(i, x, p) \/ SListInsert(i, x, p) \/ DListInsert(i, x, p)
    \/ \E i \in Inst, k \in Positions : VecPushBackRef(i, k)
    \/ \E i \in Inst, k \in Positions, p \in Positions : VecInsertRef(i, k, p)
    \/ \E i \in Inst, p \in Positions : VecErase(i, p) \/ SListErase(i, p) \/ DListErase(i, p)
    \/ \E i \in Inst, x \in Values, p \in Positions :
          VecAssignAt(i, p, x) \/ SListAssignAt(i, p, x) \/ DListAssignAt(i, p, x)

Spec == Init /\ [][Next]_vars

(***************************************************************************)
(* What a client observes of an object, and the calls of its kind.         *)
(***************************************************************************)

\* The storage of object i's kind.
StoreOf(i) == IF IsVec(i) THEN bufs ELSE IF IsSList(i) THEN snodes ELSE dnodes

\* The elements iteration from begin() to end() yields on object x in store st.
Elems(x, st) ==
    IF x.kind = "myvector" THEN VecElems(x, st)
    ELSE IF x.kind = "slist" THEN SElems(st, x.head)
    ELSE IF x.kind = "dlist" THEN DElems(st, x.head)
    ELSE <<>>

\* operator[](k) for k = 0 .. size() - 1.
Indexed(x, st) ==
    [k \in 1..x.length |->
        IF x.kind = "myvector" THEN VecCell(st, x.data, k - 1)
        ELSE IF x.kind = "slist" THEN st[SWalk(st, x.head, k - 1)].value
        ELSE st[DWalk(st, x.head, k - 1)].value]

SizeOf(i)  == obj[i].length      \* size()
ElemsOf(i) == Elems(obj[i], StoreOf(i))

ConstructOuts(i, k) ==
    IF k = "myvector" THEN VecConstructOuts(i)
    ELSE IF k = "slist" THEN SListConstructOuts(i) ELSE DListConstructOuts(i)
MoveConstructOuts(i, j) ==
    IF IsVec(j) THEN VecMoveConstructOuts(i, j)
    ELSE IF IsSList(j) THEN SListMoveConstructOuts(i, j) ELSE DListMoveConstructOuts(i, j)
PushBackOuts(i, x) ==
    IF IsVec(i) THEN VecPushBackOuts(i, x)
    ELSE IF IsSList(i) THEN SListPushBackOuts(i, x) ELSE DListPushBackOuts(i, x)
InsertOuts(i, x, p) ==
    IF IsVec(i) THEN VecInsertOuts(i, x, p)
    ELSE IF IsSList(i) THEN SListInsertOuts(i, x, p) ELSE DListInsertOuts(i, x, p)
EraseOuts(i, p) ==
    IF IsVec(i) THEN VecEraseOuts(i, p)
    ELSE IF IsSList(i) THEN SListEraseOuts(i, p) ELSE DListEraseOuts(i, p)
AssignAtOuts(i, p, x) ==
    IF IsVec(i) THEN VecAssignAtOuts(i, p, x)
    ELSE IF IsSList(i) THEN SListAssignAtOuts(i, p, x) ELSE DListAssignAtOuts(i, p, x)
MoveAssignOuts(i, j) ==
    IF IsVec(i) THEN VecMoveAssignOuts(i, j)
    ELSE IF IsSList(i) THEN SListMoveAssignOuts(i, j) ELSE DListMoveAssignOuts(i, j)
CopyAssignOuts(i, j) ==
    IF IsVec(i) THEN VecCopyAssignOuts(i, j)
    ELSE IF IsSList(i) THEN SListCopyAssignOuts(i, j) ELSE DListCopyAssignOuts(i, j)

\* size(): return length.  Nothing is written.
SizeOuts(i)  == {Returned(obj, StoreOf(i))}
\* print(): the elements are read in order and written to std::cout.
\* Nothing of the container is written.
PrintOuts(i) == {Returned(obj, StoreOf(i))}

Kinds   == {"myvector", "slist", "dlist"}
LiveSet == {i \in Inst : Live(i)}
CanGrow == {i \in LiveSet : SizeOf(i) < MaxLen}

(***************************************************************************)
(* C1                                                                      *)
(***************************************************************************)

\* Object x in store st agrees with the reference r: size() is the length of
\* the reference sequence and the balance of the calls, iteration and
\* operator[] yield the reference sequence, and a myvector owns an array.
AgreesWith(x, st, r) ==
    /\ x # NoObj
    /\ x.length = Len(r.seq) /\ x.length = r.net
    /\ Elems(x, st) = r.seq
    /\ Indexed(x, st) = r.seq
    /\ x.kind = "myvector" => x.capacity >= 1

AgreesAfter(out, i, r) == out.result = "ok" /\ AgreesWith(out.obj[i], out.store, r)

\* C1: for each of the three containers, a default-constructed container
\* agrees with the empty reference sequence (size 0), and every in-range
\* push_back, insert and erase call on a container that agrees with its
\* reference sequence leaves it agreeing with the reference sequence after
\* the same operation (append at the end, insert before the position, remove
\* at the position), size() being the number of push_back/insert calls minus
\* the number of erase calls.  By induction this holds after every finite
\* sequence of such calls on a default-constructed container.
C1_SequenceSemantics ==
    \A i \in Inst :
       /\ ~Live(i) =>
            \A k \in {kk \in Kinds : OnlyKind(kk)} :
               \A out \in ConstructOuts(i, k) : AgreesAfter(out, i, Fresh)
       /\ (Live(i) /\ AgreesWith(obj[i], StoreOf(i), ref[i])) =>
            /\ i \in CanGrow =>
                 \A x \in Values :
                    /\ \A out \in PushBackOuts(i, x) :
                          AgreesAfter(out, i, RefPushed(ref[i], x))
                    /\ \A p \in 0..SizeOf(i) : \A out \in InsertOuts(i, x, p) :
                          AgreesAfter(out, i, RefInserted(ref[i], x, p))
            /\ \A p \in 0..(SizeOf(i) - 1) : \A out \in EraseOuts(i, p) :
                  AgreesAfter(out, i, RefErased(ref[i], p))

C1_Witness ==
    /\ last = Call("erase", "ok")
    /\ \E i \in Inst :
          /\ AgreesWith(obj[i], StoreOf(i), ref[i])
          /\ SizeOf(i) = 2 /\ ElemsOf(i) = <<1, 2>> /\ ref[i].net = 2

(***************************************************************************)
(* C2                                                                      *)
(***************************************************************************)

Untouched(out, i) == out.result = "out_of_range" /\ out.obj = obj /\ out.store = StoreOf(i)

\* C2: for each of the three containers in any reachable state, insert(x, p)
\* with p < 0 or p > size(), erase(p) with p < 0 or p >= size() and
\* operator[](p) with p < 0 or p >= size() end by the out-of-range exception
\* with every object (size, capacity, array, head) and all storage (cells,
\* nodes, links) exactly as before the call.
C2_OutOfRangeUnchanged ==
    \A i \in LiveSet : \A p \in Positions : \A x \in Values :
       /\ (p < 0 \/ p > SizeOf(i)) => \A out \in InsertOuts(i, x, p) : Untouched(out, i)
       /\ (p < 0 \/ p >= SizeOf(i)) => \A out \in EraseOuts(i, p) : Untouched(out, i)
       /\ (p < 0 \/ p >= SizeOf(i)) => \A out \in AssignAtOuts(i, p, x) : Untouched(out, i)

C2_Witness ==
    /\ last = Call("erase", "out_of_range")
    /\ \E i \in Inst : Live(i) /\ SizeOf(i) = 2

(***************************************************************************)
(* C3                                                                      *)
(***************************************************************************)

\* After a move of a into b: b has a's size and elements from before the
\* move, a has size 0 and iterates over nothing.
MovedInto(out, b, a) ==
    /\ out.result = "ok"
    /\ out.obj[b].length = SizeOf(a)
    /\ Elems(out.obj[b], out.store) = ElemsOf(a)
    /\ out.obj[a].length = 0
    /\ Elems(out.obj[a], out.store) = <<>>

\* C3: for each of the three containers and two distinct objects a and b in
\* any reachable state, after b = std::move(a), whatever b held, and after
\* move-constructing b from a, b's size and element sequence are those a had
\* immediately before, a.size() is 0 and a iterates over no element.
C3_MoveTransfers ==
    \A a \in LiveSet : \A b \in Inst \ {a} :
       IF Live(b)
       THEN \A out \in MoveAssignOuts(b, a) : MovedInto(out, b, a)
       ELSE \A out \in MoveConstructOuts(b, a) : MovedInto(out, b, a)

C3_Witness ==
    /\ last = Call("move_assign", "ok")
    /\ \E a \in LiveSet : \E b \in LiveSet \ {a} :
          SizeOf(a) = 0 /\ ElemsOf(a) = <<>> /\ SizeOf(b) = 2 /\ ElemsOf(b) = <<2, 1>>

(***************************************************************************)
(* C4                                                                      *)
(***************************************************************************)

\* Object a is as it was: same size, same elements.
Keeps(out, a) ==
    /\ out.obj[a].length = SizeOf(a)
    /\ Elems(out.obj[a], out.store) = ElemsOf(a)

\* C4: for each of the three containers and distinct objects a and b, in
\* every state from a copy assignment on (b = a or a = b), a mutation of b
\* (push_back, insert, erase, a write through operator[], copy assignment to
\* b) leaves a's size and element sequence unchanged, and the same with a and
\* b exchanged.  Stated of every reachable state with a and b constructed.
C4_CopyIndependence ==
    \A a \in LiveSet : \A b \in LiveSet \ {a} : \A x \in Values :
       /\ b \in CanGrow => \A out \in PushBackOuts(b, x) : Keeps(out, a)
       /\ \A p \in Positions :
            /\ (b \in CanGrow \/ p < 0 \/ p > SizeOf(b)) =>
                  \A out \in InsertOuts(b, x, p) : Keeps(out, a)
            /\ \A out \in EraseOuts(b, p) : Keeps(out, a)
            /\ \A out \in AssignAtOuts(b, p, x) : Keeps(out, a)
       /\ \A out \in CopyAssignOuts(b, a) : Keeps(out, a)

C4_Witness ==
    /\ last = Call("copy_assign", "ok")
    /\ \E a \in LiveSet : \E b \in LiveSet \ {a} :
          SizeOf(a) = 2 /\ ElemsOf(a) = <<1, 2>> /\ ElemsOf(b) = ElemsOf(a)

(***************************************************************************)
(* C5                                                                      *)
(***************************************************************************)

\* Object x in store st is in the state the default constructor leaves: an
\* empty list with a null head; an empty myvector of capacity 1 that owns an
\* array of one cell.
DefaultState(x, st) ==
    IF x.kind = "myvector"
    THEN x.length = 0 /\ x.capacity = 1 /\ x.data \in DOMAIN st /\ st[x.data].n = 1
    ELSE x.length = 0 /\ x.head = NULL

\* C5 (as claimed): for each of the three containers, after a move (move
\* construction or move assignment) the source is in the state of a
\* default-constructed container of its kind; for myvector with the default
\* capacity and an allocated array.
C5_MovedFromIsDefault ==
    \A a \in LiveSet : \A b \in Inst \ {a} :
       IF Live(b)
       THEN \A out \in MoveAssignOuts(b, a) : DefaultState(out.obj[a], out.store)
       ELSE \A out \in MoveConstructOuts(b, a) : DefaultState(out.obj[a], out.store)

(***************************************************************************)
(* C6                                                                      *)
(***************************************************************************)

\* After a call on a full vector i: the capacity is double what it was, or 1
\* if it was 0, the value went to an index below the new capacity, and the
\* length is one more.
GrewThenStored(out, i) ==
    /\ out.result = "ok"
    /\ out.obj[i].capacity = (IF obj[i].capacity = 0 THEN 1 ELSE 2 * obj[i].capacity)
    /\ obj[i].length < out.obj[i].capacity
    /\ out.obj[i].length = obj[i].length + 1

\* C6 (as claimed): push_back, and insert at a valid position, on any
\* reachable myvector whose length equals its capacity first grows the
\* capacity, to double the current capacity or to 1 if it is 0, and then
\* stores the value at an index strictly below the new capacity and
\* increments length: nothing is written outside the allocated array.
C6_GrowsBeforeStore ==
    \A i \in CanGrow : \A x \in Values :
       (IsVec(i) /\ obj[i].length = obj[i].capacity) =>
          /\ \A out \in VecPushBackOuts(i, x) : GrewThenStored(out, i)
          /\ \A p \in 0..SizeOf(i) : \A out \in VecInsertOuts(i, x, p) : GrewThenStored(out, i)

(***************************************************************************)
(* C7                                                                      *)
(***************************************************************************)

\* C7 (as claimed): in every reachable state of a myvector, length <=
\* capacity, the owned array has exactly capacity cells (no array when the
\* capacity is 0 and data is null), and every index in [0, length) lies
\* inside that array.
C7_LengthWithinCapacity ==
    \A i \in LiveSet :
       IsVec(i) =>
          /\ obj[i].length <= obj[i].capacity
          /\ IF obj[i].data = NULL THEN obj[i].capacity = 0
             ELSE obj[i].data \in DOMAIN bufs /\ bufs[obj[i].data].n = obj[i].capacity
          /\ \A k \in 0..(obj[i].length - 1) :
                obj[i].data \in DOMAIN bufs /\ k < bufs[obj[i].data].n

(***************************************************************************)
(* C8                                                                      *)
(***************************************************************************)

\* The nodes reachable from the heads of the dlist objects.
DReach == UNION {Range(Chain(dnodes, obj[i].head, {})) : i \in {j \in Inst : IsDList(j)}}

\* C8: in every reachable state of a dlist, for every node n reachable from
\* a head with n.next = m, m.prev is not expired and refers to exactly n.
C8_PrevMirrorsNext ==
    \A n \in DReach :
       dnodes[n].next # NULL =>
          /\ dnodes[n].next \in DOMAIN dnodes
          /\ dnodes[dnodes[n].next].prev = n

C8_Witness ==
    /\ last = Call("erase", "ok")
    /\ \E i \in LiveSet :
          /\ IsDList(i) /\ SizeOf(i) = 2
          /\ dnodes[dnodes[obj[i].head].next].prev = obj[i].head

(***************************************************************************)
(* C9                                                                      *)
(***************************************************************************)

\* The chain from head runs through distinct live nodes to a null next.
Acyclic(h, head) ==
    LET c == Chain(h, head, {})
    IN  IF head = NULL THEN TRUE
        ELSE Len(c) >= 1 /\ h[c[Len(c)]].next = NULL

\* C9: in dlist a backward reference is never an owner: after every call
\* each node reachable from a head has exactly one owning reference (the
\* head of its list or the next of its predecessor), the chains of owning
\* references are acyclic, and no node is alive that is not reachable from a
\* head through next links: a node unlinked by erase, by an assignment over
\* a non-empty list or by the list's destruction is destroyed.
C9_SingleForwardOwner ==
    /\ \A n \in DOMAIN dnodes :
          /\ UseCount(dnodes, Heads(obj), n) = 1
          /\ n \in DReach
    /\ \A i \in LiveSet : IsDList(i) => Acyclic(dnodes, obj[i].head)

C9_Witness ==
    /\ last = Call("destroy", "ok")
    /\ \E i \in LiveSet :
          /\ IsDList(i) /\ SizeOf(i) = 3
          /\ DOMAIN dnodes = Range(Chain(dnodes, obj[i].head, {}))
          /\ \A j \in Inst \ {i} : ~Live(j)

(***************************************************************************)
(* C10                                                                     *)
(***************************************************************************)

\* C10: for each of the three containers in any reachable state and any
\* value x, insert(x, size()) ends as push_back(x) does from the same state:
\* the same result, the same objects (size, capacity, head) and the same
\* storage (cells, nodes, forward and backward links).
C10_InsertAtEndIsPushBack ==
    \A i \in CanGrow : \A x \in Values :
       InsertOuts(i, x, SizeOf(i)) = PushBackOuts(i, x)

C10_Witness ==
    /\ last = Call("insert", "ok")
    /\ \E i \in CanGrow : \E x \in Values :
          /\ IsDList(i) /\ SizeOf(i) = 2
          /\ \E out \in InsertOuts(i, x, 2) :
                out.result = "ok" /\ Elems(out.obj[i], out.store) = Append(ElemsOf(i), x)

(***************************************************************************)
(* C11                                                                     *)
(***************************************************************************)

\* Object i shows what the reference sequence of its calls shows: the same
\* size() and, by iteration and by operator[], the same elements.
ShowsReference(i) ==
    /\ SizeOf(i) = Len(ref[i].seq)
    /\ ElemsOf(i) = ref[i].seq
    /\ Indexed(obj[i], StoreOf(i)) = ref[i].seq

\* C11 (as claimed): the three containers are interchangeable.  The same
\* sequence of calls (construction, push_back, insert, erase, operator[],
\* copy assignment, moves, calls on moved-from objects included) gives on
\* myvector, slist and dlist the same size() and the same observable element
\* sequence at every step, hence the same outcome of every bounds check.
\* The reference sequence is a function of the calls alone, so the three
\* kinds agree with one another exactly when each agrees with it.
C11_Interchangeable == \A i \in LiveSet : ShowsReference(i)

(***************************************************************************)
(* C12                                                                     *)
(***************************************************************************)

\* The nodes of list i in the order the forward links from head reach them.
ChainOf(i) == Chain(StoreOf(i), obj[i].head, {})

\* C12: in every reachable state of an slist or a dlist the chain of forward
\* links from head is acyclic and finite (it runs through distinct live
\* nodes to a null link), and length is the number of nodes reachable from
\* head through forward links, 0 exactly when head is null.
C12_LengthCountsNodes ==
    \A i \in LiveSet :
       (IsSList(i) \/ IsDList(i)) =>
          /\ Acyclic(StoreOf(i), obj[i].head)
          /\ obj[i].length = Len(ChainOf(i))
          /\ obj[i].length = 0 <=> obj[i].head = NULL

C12_Witness ==
    /\ last = Call("copy_assign", "ok")
    /\ \E i \in LiveSet : \E j \in LiveSet \ {i} :
          /\ IsDList(i) /\ IsDList(j)
          /\ SizeOf(i) = 2 /\ Len(ChainOf(i)) = 2
          /\ SizeOf(j) = 2 /\ Len(ChainOf(j)) = 2

(***************************************************************************)
(* C13                                                                     *)
(***************************************************************************)

\* After a push_back or an in-range insert on vector i: the capacity changed
\* exactly if the vector was full, and then it is twice what it was.
DoubledIfFull(out, i) ==
    /\ out.result = "ok"
    /\ (out.obj[i].capacity # obj[i].capacity) <=> (obj[i].length = obj[i].capacity)
    /\ obj[i].length = obj[i].capacity => out.obj[i].capacity = 2 * obj[i].capacity

SameCapacity(out, i) == out.obj[i].capacity = obj[i].capacity

\* C13 (as claimed): a default-constructed myvector has capacity 1; a
\* push_back or an in-range insert changes the capacity if and only if
\* length = capacity held immediately before the call, and then the capacity
\* becomes exactly twice what it was and the elements at [0, length) are
\* kept in order across the reallocation; erase, operator[], size and print
\* never change the capacity.
C13_DoublesExactlyWhenFull ==
    \A i \in Inst :
       /\ (~Live(i) /\ OnlyKind("myvector")) =>
             \A out \in VecConstructOuts(i) : out.obj[i].capacity = 1
       /\ (IsVec(i) /\ i \in CanGrow) =>
             \A x \in Values :
                /\ \A out \in VecPushBackOuts(i, x) :
                      /\ DoubledIfFull(out, i)
                      /\ SubSeq(Elems(out.obj[i], out.store), 1, SizeOf(i)) = ElemsOf(i)
                /\ \A p \in 0..SizeOf(i) : \A out \in VecInsertOuts(i, x, p) :
                      /\ DoubledIfFull(out, i)
                      /\ RemoveAt(Elems(out.obj[i], out.store), p) = ElemsOf(i)
       /\ IsVec(i) =>
             /\ \A p \in Positions :
                   /\ \A out \in VecEraseOuts(i, p) : SameCapacity(out, i)
                   /\ \A x \in Values : \A out \in VecAssignAtOuts(i, p, x) : SameCapacity(out, i)
             /\ \A out \in SizeOuts(i) \cup PrintOuts(i) : SameCapacity(out, i)

(***************************************************************************)
(* C14                                                                     *)
(***************************************************************************)

NotShrunk(out, i) == out.obj[i].capacity >= obj[i].capacity

\* The calls that act on vector i alone leave its capacity at least what it was.
OwnCallsKeepCapacity(i) ==
    /\ i \in CanGrow => \A x \in Values : \A out \in VecPushBackOuts(i, x) : NotShrunk(out, i)
    /\ \A p \in Positions :
          /\ \A x \in Values :
                /\ (i \in CanGrow \/ p < 0 \/ p > SizeOf(i)) =>
                      \A out \in VecInsertOuts(i, x, p) : NotShrunk(out, i)
                /\ \A out \in VecAssignAtOuts(i, p, x) : NotShrunk(out, i)
          /\ \A out \in VecEraseOuts(i, p) : NotShrunk(out, i)

\* C14 (as claimed): the capacity of a myvector never shrinks: after
\* push_back, insert, erase, operator[], copy assignment into it, move
\* assignment into it and being moved from, its capacity is at least what it
\* was before the call.
C14_CapacityNeverShrinks ==
    \A i \in LiveSet :
       IsVec(i) =>
          /\ OwnCallsKeepCapacity(i)
          /\ \A j \in Inst \ {i} :
                IF Live(j)
                THEN /\ \A out \in VecCopyAssignOuts(i, j) : NotShrunk(out, i)
                     /\ \A out \in VecMoveAssignOuts(i, j) : NotShrunk(out, i)
                     /\ \A out \in VecMoveAssignOuts(j, i) : NotShrunk(out, i)
                ELSE \A out \in VecMoveConstructOuts(j, i) : NotShrunk(out, i)

\* C14 (amended): push_back, insert, erase and operator[] never reduce the
\* capacity of a myvector.  Copy assignment and move assignment into it set
\* its capacity to the source's capacity, which may be smaller than its own
\* was; being moved from sets its capacity to 0.
C14_CapacityShrinksOnlyByAssignmentOrMove ==
    \A i \in LiveSet :
       IsVec(i) =>
          /\ OwnCallsKeepCapacity(i)
          /\ \A j \in Inst \ {i} :
                IF Live(j)
                THEN /\ \A out \in VecCopyAssignOuts(i, j) :
                           out.obj[i].capacity = obj[j].capacity
                     /\ \A out \in VecMoveAssignOuts(i, j) :
                           out.obj[i].capacity = obj[j].capacity
                     /\ \A out \in VecMoveAssignOuts(j, i) : out.obj[i].capacity = 0
                ELSE \A out \in VecMoveConstructOuts(j, i) : out.obj[i].capacity = 0

\* A copy assignment has just left a vector with a smaller capacity than the
\* other vector, which an assignment the other way round would shrink.
C14_Witness ==
    /\ last = Call("copy_assign", "ok")
    /\ \E i \in LiveSet : \E j \in LiveSet \ {i} :
          /\ IsVec(i) /\ IsVec(j)
          /\ obj[i].capacity = 1 /\ obj[j].capacity = 2
          /\ \E out \in VecCopyAssignOuts(j, i) : out.obj[j].capacity = 1

(***************************************************************************)
(* C15                                                                     *)
(***************************************************************************)

SLists == {i \in Inst : IsSList(i)}

\* The unique_ptrs that own node n: heads of slists and next links of nodes.
SOwners(n) ==
    Cardinality({i \in SLists : obj[i].head = n})
    + Cardinality({q \in DOMAIN snodes : snodes[q].next = n})

\* C15: in every reachable state each live slist node has exactly one owner,
\* the head of one slist or the next link of one other live node; no head
\* and no next link refers to a destroyed node; and no node outlives its
\* chain: every live node is reached from the head of an slist, so the node
\* erase unlinks and the chain a destroyed or assigned-over list owned are
\* gone.
C15_SListSingleOwner ==
    /\ \A n \in DOMAIN snodes :
          /\ SOwners(n) = 1
          /\ snodes[n].next # n
          /\ snodes[n].next = NULL \/ snodes[n].next \in DOMAIN snodes
          /\ \E i \in SLists : n \in Range(ChainOf(i))
    /\ \A i \in SLists : obj[i].head = NULL \/ obj[i].head \in DOMAIN snodes
    /\ \A i \in SLists : \A out \in SListEraseOuts(i, 0) :
          out.result = "ok" =>
             Cardinality(DOMAIN out.store) = Cardinality(DOMAIN snodes) - 1
    /\ \A i \in SLists : \A out \in SListDestroyOuts(i) :
          Cardinality(DOMAIN out.store) = Cardinality(DOMAIN snodes) - SizeOf(i)

C15_Witness ==
    /\ last = Call("erase", "ok")
    /\ \E i \in SLists : \E j \in SLists \ {i} :
          /\ SizeOf(i) = 2 /\ SizeOf(j) = 1
          /\ Cardinality(DOMAIN snodes) = 3

(***************************************************************************)
(* C16                                                                     *)
(***************************************************************************)

\* The array of vector x in store st, NULL for none.
ArrayOf(x, st) == IF x.data \in DOMAIN st THEN st[x.data] ELSE NULL

\* Source a is as it was before the call: size, elements and, for a
\* myvector, capacity and array cells.
SourceKept(out, a) ==
    /\ Keeps(out, a)
    /\ IsVec(a) =>
          /\ out.obj[a].capacity = obj[a].capacity
          /\ ArrayOf(out.obj[a], out.store) = ArrayOf(obj[a], bufs)

\* Vector b holds its elements in an array of its own that has capacity
\* cells, the capacity being a's.
FreshArrayOf(out, b, a) ==
    /\ out.obj[b].capacity = obj[a].capacity
    /\ out.obj[b].data \in DOMAIN out.store
    /\ out.obj[b].data # out.obj[a].data
    /\ out.store[out.obj[b].data].n = out.obj[b].capacity
    /\ \A k \in 0..(out.obj[b].length - 1) : k < out.store[out.obj[b].data].n

\* C16 (as claimed): after a copy assignment b = a between distinct objects
\* of one kind, b's size and element sequence are a's, whatever b held
\* before; a's size, sequence and storage are unchanged; and for myvector
\* b's capacity is a's capacity with b's elements held in a newly allocated
\* array.
C16_CopyAssignResult ==
    \A a \in LiveSet : \A b \in LiveSet \ {a} :
       \A out \in CopyAssignOuts(b, a) :
          /\ out.result = "ok"
          /\ out.obj[b].length = SizeOf(a)
          /\ Elems(out.obj[b], out.store) = ElemsOf(a)
          /\ SourceKept(out, a)
          /\ IsVec(a) => FreshArrayOf(out, b, a)

(***************************************************************************)
(* C17                                                                     *)
(***************************************************************************)

\* The nodes of list i.
NodesOf(i) == Range(ChainOf(i))

\* C17: no storage is shared between containers.  In every reachable state
\* no array is owned by two myvectors, no node is reachable from the heads
\* of two lists, and in a dlist every forward link and every backward
\* reference of a node of one list is null or refers to a node of that list.
C17_NoSharedStorage ==
    \A i \in LiveSet :
       /\ \A j \in LiveSet \ {i} :
             /\ (IsVec(i) /\ obj[i].data # NULL) => obj[j].data # obj[i].data
             /\ ~IsVec(i) => NodesOf(i) \cap NodesOf(j) = {}
       /\ IsDList(i) =>
             \A n \in NodesOf(i) :
                /\ dnodes[n].next = NULL \/ dnodes[n].next \in NodesOf(i)
                /\ dnodes[n].prev = NULL \/ dnodes[n].prev \in NodesOf(i)

C17_Witness ==
    /\ last = Call("copy_assign", "ok")
    /\ \E i \in LiveSet : \E j \in LiveSet \ {i} :
          /\ IsDList(i) /\ IsDList(j)
          /\ ElemsOf(i) = <<1, 2>> /\ ElemsOf(j) = <<1, 2>>
          /\ NodesOf(i) \cap NodesOf(j) = {}
          /\ Cardinality(NodesOf(i) \cup NodesOf(j)) = 4

(***************************************************************************)
(* C18                                                                     *)
(***************************************************************************)

\* C18: in every reachable state of a non-empty dlist the head node has no
\* predecessor: its backward reference is empty, neither a reference to a
\* live node nor an expired reference to an erased one.
C18_HeadHasNoPrev ==
    \A i \in LiveSet :
       (IsDList(i) /\ obj[i].head # NULL) =>
          /\ obj[i].head \in DOMAIN dnodes
          /\ dnodes[obj[i].head].prev = NULL

C18_Witness ==
    /\ last = Call("erase", "ok")
    /\ \E i \in LiveSet :
          /\ IsDList(i) /\ SizeOf(i) = 2 /\ ref[i].seq = <<2, 1>>
          /\ dnodes[obj[i].head].prev = NULL
          /\ \E j \in LiveSet \ {i} : IsDList(j) /\ SizeOf(j) = 3

(***************************************************************************)
(* C19                                                                     *)
(***************************************************************************)

\* The store st with the element values left out: for a myvector the arrays'
\* sizes, for a list the nodes' links.
Shape(k, st) ==
    [n \in DOMAIN st |->
        IF k = "myvector" THEN st[n].n
        ELSE IF k = "slist" THEN st[n].next
        ELSE <<st[n].next, st[n].prev>>]

\* After c[p] = x on object i: the p-th element is x, every other element,
\* the size, the capacity, the array or head and all links are as before.
OnlyElementChanged(out, i, p, x) ==
    /\ out.result = "ok"
    /\ out.obj = obj
    /\ Shape(obj[i].kind, out.store) = Shape(obj[i].kind, StoreOf(i))
    /\ Elems(out.obj[i], out.store) = ReplaceAt(ElemsOf(i), x, p)
    /\ Indexed(out.obj[i], out.store) = ReplaceAt(ElemsOf(i), x, p)
    /\ \A j \in LiveSet \ {i} : Keeps(out, j)

\* C19 (as claimed): for each of the three containers and every index p with
\* 0 <= p < size(), operator[](p) refers to the p-th element of the
\* sequence, and an assignment through the reference changes exactly that
\* element: size(), every other element, the capacity of a myvector and the
\* links of a list are unchanged; size() and print() change no state at all.
C19_IndexedWriteFrame ==
    \A i \in LiveSet :
       /\ \A p \in 0..(SizeOf(i) - 1) : \A x \in Values :
             \A out \in AssignAtOuts(i, p, x) : OnlyElementChanged(out, i, p, x)
       /\ \A out \in SizeOuts(i) \cup PrintOuts(i) :
             out.result = "ok" /\ out.obj = obj /\ out.store = StoreOf(i)

(***************************************************************************)
(* C20                                                                     *)
(***************************************************************************)

\* C20 (as claimed): the copying forms of myvector push_back and insert,
\* called with a reference to element k of the same vector, have the
\* post-condition of the moving forms called with the value element k had
\* immediately before the call: the element stored at the target position
\* equals that value, whether or not the call reallocates the array or
\* shifts the referenced element.
C20_AliasedArgument ==
    \A i \in CanGrow :
       IsVec(i) =>
          \A k \in 0..(SizeOf(i) - 1) :
             /\ \A out \in VecPushBackRefOuts(i, k) :
                   /\ out.result = "ok"
                   /\ Elems(out.obj[i], out.store)[SizeOf(i) + 1] = ElemsOf(i)[k + 1]
                   /\ out \in VecPushBackOuts(i, ElemsOf(i)[k + 1])
             /\ \A p \in 0..SizeOf(i) : \A out \in VecInsertRefOuts(i, k, p) :
                   /\ out.result = "ok"
                   /\ Elems(out.obj[i], out.store)[p + 1] = ElemsOf(i)[k + 1]
                   /\ out \in VecInsertOuts(i, ElemsOf(i)[k + 1], p)

(***************************************************************************)
(* C21                                                                     *)
(***************************************************************************)

\* C21: for each of the three containers self-assignment is a no-op: after
\* a = a and after a = std::move(a) every object (size, capacity, array,
\* head) and all storage (cells, nodes, links) are exactly as before the
\* call, so that a's element sequence is unchanged and nothing was destroyed.
C21_SelfAssignmentNoOp ==
    \A i \in LiveSet :
       \A out \in CopyAssignOuts(i, i) \cup MoveAssignOuts(i, i) :
          /\ out.result = "ok"
          /\ out.obj = obj
          /\ out.store = StoreOf(i)
          /\ Elems(out.obj[i], out.store) = ElemsOf(i)

\* A move assignment was made with one object alive, hence to itself, and
\* the object holds what it held.
C21_Witness ==
    /\ last = Call("move_assign", "ok")
    /\ \E i \in LiveSet :
          /\ IsSList(i) /\ SizeOf(i) = 2 /\ ElemsOf(i) = <<1, 2>>
          /\ ref[i].seq = <<1, 2>>
          /\ \A j \in Inst \ {i} : ~Live(j)

====
